---------------------------- MODULE Spec2Model ----------------------------
(***************************************************************************)
(* Model of the executor service of ml/executor.py: the polling loop       *)
(* main_loop, the decision make_decision, the dispatch                     *)
(* execute_transaction_on_chain, and the remote ledger they talk to.       *)
(*                                                                         *)
(* Amounts are fees per unit of gas.  The model's unit of amount is 1e8    *)
(* wei, so that one gwei (1e9 wei) is GWEI = 10 units and the prices of    *)
(* the scenarios (40, 48, 55 gwei) are 400, 480, 550.  Times are seconds.  *)
(***************************************************************************)
EXTENDS Integers, Sequences, FiniteSets, TLC

(***************************************************************************)
(* Bounds of the model.                                                    *)
(***************************************************************************)
MaxNow == 240           \* the clock stops the loop's sleep at this time
MaxBroadcasts == 2      \* broadcasts accepted by the node in one run

(***************************************************************************)
(* Program constants.                                                      *)
(***************************************************************************)
GWEI == 10              \* 1e9 wei in units of 1e8 wei
SLEEP_SECONDS == 60     \* time.sleep(60)
RECEIPT_TIMEOUT == 120  \* wait_for_transaction_receipt(tx_hash, timeout=120)
PRIORITY_FEE == 2 * GWEI \* w3.to_wei(2, 'gwei')

ZERO_ADDRESS == "0x0000000000000000000000000000000000000000"
USER_ADDRESS == "0xSubmitter"
NoId == "None"
TxIds == {"0xc4f55d33"}

(***************************************************************************)
(* Inputs: the values the environment draws from.                          *)
(***************************************************************************)
BaseFees == {400, 420, 480, 500, 550}
Predictions == {400, 600}
MaxGasPrices == {500}
Deadlines == {120, 1020}

NoRequest == [txId |-> NoId, maxGasPrice |-> 0]
NoSnapshot == [current |-> 0 - 1, predicted |-> 0 - 1, userMax |-> 0 - 1,
               deadline |-> 0 - 1, at |-> 0 - 1]

VARIABLES
    pc,                      \* position of main_loop
    manually_tracked_tx_id,  \* the tracked id, or NoId
    chainRequest,            \* contract.transactionRequests(id) on the ledger
    baseFee,                 \* base fee of the latest block
    now,                     \* wall clock
    tx_request,              \* the dict main_loop hands to make_decision
    deadline,                \* the deadline main_loop read this tick
    snapshot,                \* inputs of the tick's completed make_decision
    verdict,                 \* "Execute"/"Wait" of this tick, or "none"
    outcome,                 \* how this tick's dispatch ended, or "none"
    failure,                 \* the transient failure of this tick, or "none"
    tickLog,                 \* the steps this tick has taken, in order
    trackedAtTickStart,      \* manually_tracked_tx_id when the tick began
    mempool,                 \* broadcast calls not yet mined
    receipts,                \* [hash, status] of the mined calls
    txCount,                 \* get_transaction_count(executor): mined calls
    tx_hash,                 \* the hash execute_transaction_on_chain awaits
    sent,                    \* every call broadcast so far, in order
    config,                  \* which of the three settings are present
    connected,               \* w3.is_connected() at startup
    saved,                   \* the tracked sets written to durable storage
    lastDecision             \* record of the latest completed make_decision

vars == <<pc, manually_tracked_tx_id, chainRequest, baseFee, now, tx_request,
          deadline, snapshot, verdict, outcome, failure, tickLog,
          trackedAtTickStart, mempool, receipts, txCount, tx_hash, sent,
          config, connected, saved, lastDecision>>

loopVars == <<pc, manually_tracked_tx_id, tx_request, deadline, snapshot,
              verdict, outcome, failure, tickLog, trackedAtTickStart, tx_hash>>
chainVars == <<chainRequest, baseFee, mempool, receipts, txCount, sent>>
processVars == <<config, connected, saved>>   \* never written by the loop
NoDecision == [current |-> 0 - 1, predicted |-> 0 - 1, userMax |-> 0 - 1,
               verdict |-> "none", repeatOf |-> "none"]

\* the record of an evaluation; repeatOf is the verdict of the evaluation
\* before it when that one had the same inputs, and "none" otherwise
Evaluation(before, current, predicted, userMax, v) ==
    [current |-> current, predicted |-> predicted, userMax |-> userMax,
     verdict |-> v,
     repeatOf |-> IF /\ before.current = current
                     /\ before.predicted = predicted
                     /\ before.userMax = userMax
                     THEN before.verdict ELSE "none"]
NothingSaved == <<>>   \* the tracked sets saved so far, in order: none

(***************************************************************************)
(* make_decision.  current_gas = base_fee / 1e9 and                        *)
(* user_max_gas = maxGasPrice / 1e9 are quotients by the same positive     *)
(* constant, and predicted_gas is a price in gwei, here predicted / GWEI:  *)
(* the comparisons of the quotients are the comparisons below.             *)
(***************************************************************************)
\* the mutant lets a price equal to the ceiling pass
is_below_max_Inclusive(current, userMax) == current <= userMax

is_below_max(current, userMax) == current < userMax

\* the mutant forgets the 5% margin
is_good_time_NoMargin(current, predicted) == current < predicted

is_good_time(current, predicted) == current * 100 < predicted * 105

make_decision(current, predicted, userMax) ==
    is_below_max(current, userMax) /\ is_good_time(current, predicted)

(***************************************************************************)
(* execute_transaction_on_chain: its return value for each way it ends.    *)
(***************************************************************************)
\* the mutant tests the receipt status the wrong way round
execute_transaction_on_chain_Inverted(how) ==
    CASE how = "success"      -> FALSE
      [] how = "fail_receipt" -> TRUE
      [] how = "timeout"      -> FALSE
      [] how = "submit_error" -> FALSE

execute_transaction_on_chain(how) ==
    CASE how = "success"      -> TRUE    \* receipt.status == 1
      [] how = "fail_receipt" -> FALSE   \* receipt.status != 1
      [] how = "timeout"      -> FALSE   \* except Exception
      [] how = "submit_error" -> FALSE   \* except Exception

IsLive(req) == req.submitter # ZERO_ADDRESS /\ ~req.executed

\* the mutant passes the check as soon as one setting is present
ConfigComplete_Any(cfg) == cfg.rpc_url \/ cfg.private_key \/ cfg.contract_address

\* all([SEPOLIA_RPC_URL, EXECUTOR_PRIVATE_KEY, CONTRACT_ADDRESS])
ConfigComplete(cfg) == cfg.rpc_url /\ cfg.private_key /\ cfg.contract_address

Init ==
    /\ pc = "startup"
    /\ config \in [rpc_url : BOOLEAN, private_key : BOOLEAN,
                    contract_address : BOOLEAN]
    /\ connected \in BOOLEAN
    /\ saved = NothingSaved
    /\ lastDecision = NoDecision
    /\ manually_tracked_tx_id \in TxIds \cup {NoId}
    /\ chainRequest \in [submitter : {ZERO_ADDRESS, USER_ADDRESS},
                         maxGasPrice : MaxGasPrices,
                         deadline : Deadlines,
                         executed : BOOLEAN]
    /\ baseFee \in BaseFees
    /\ now = 0
    /\ tx_request = NoRequest
    /\ deadline = 0 - 1
    /\ snapshot = NoSnapshot
    /\ verdict = "none"
    /\ outcome = "none"
    /\ failure = "none"
    /\ tickLog = <<>>
    /\ trackedAtTickStart = manually_tracked_tx_id
    /\ mempool = {}
    /\ receipts = {}
    /\ txCount = 0
    /\ tx_hash = 0
    /\ sent = <<>>

(***************************************************************************)
(* Module level: configuration and setup, run before main_loop.            *)
(***************************************************************************)

\* a setting is missing: raise ValueError
StartupConfigMissing ==
    /\ pc = "startup"
    /\ ~ConfigComplete(config)
    /\ pc' = "failed"
    /\ UNCHANGED <<manually_tracked_tx_id, tx_request, deadline, snapshot,
                   verdict, outcome, failure, tickLog, trackedAtTickStart,
                   tx_hash, now>>
    /\ UNCHANGED chainVars
    /\ UNCHANGED <<processVars, lastDecision>>

\* the node does not answer: raise ConnectionError
StartupNoConnection ==
    /\ pc = "startup"
    /\ ConfigComplete(config)
    /\ ~connected
    /\ pc' = "failed"
    /\ UNCHANGED <<manually_tracked_tx_id, tx_request, deadline, snapshot,
                   verdict, outcome, failure, tickLog, trackedAtTickStart,
                   tx_hash, now>>
    /\ UNCHANGED chainVars
    /\ UNCHANGED <<processVars, lastDecision>>

\* from_key, w3.eth.contract or joblib.load raises
StartupSetupFails ==
    /\ pc = "startup"
    /\ ConfigComplete(config)
    /\ connected
    /\ pc' = "failed"
    /\ UNCHANGED <<manually_tracked_tx_id, tx_request, deadline, snapshot,
                   verdict, outcome, failure, tickLog, trackedAtTickStart,
                   tx_hash, now>>
    /\ UNCHANGED chainVars
    /\ UNCHANGED <<processVars, lastDecision>>

\* setup complete: main_loop() is entered
StartupDone ==
    /\ pc = "startup"
    /\ ConfigComplete(config)
    /\ connected
    /\ pc' = "loop_top"
    /\ UNCHANGED <<manually_tracked_tx_id, tx_request, deadline, snapshot,
                   verdict, outcome, failure, tickLog, trackedAtTickStart,
                   tx_hash, now>>
    /\ UNCHANGED chainVars
    /\ UNCHANGED <<processVars, lastDecision>>

(***************************************************************************)
(* main_loop, one action per blocking step.  The record of a tick          *)
(* (snapshot, verdict, outcome, failure, tickLog) is kept until the next   *)
(* tick takes its first step.                                              *)
(***************************************************************************)

\* the mutant binds the id inside the loop, so every tick tracks it anew
NoTrackedTx_Retrack ==
    /\ pc = "loop_top"
    /\ manually_tracked_tx_id = NoId
    /\ \E id \in TxIds : manually_tracked_tx_id' = id
    /\ pc' = "sleep"
    /\ tx_request' = NoRequest
    /\ deadline' = 0 - 1
    /\ snapshot' = NoSnapshot
    /\ verdict' = "none"
    /\ outcome' = "none"
    /\ failure' = "none"
    /\ tickLog' = <<>>
    /\ UNCHANGED <<trackedAtTickStart, tx_hash, now>>
    /\ UNCHANGED chainVars
    /\ UNCHANGED <<processVars, lastDecision>>

\* if manually_tracked_tx_id: is false; the tick goes straight to the sleep
NoTrackedTx ==
    /\ pc = "loop_top"
    /\ manually_tracked_tx_id = NoId
    /\ pc' = "sleep"
    /\ tx_request' = NoRequest
    /\ deadline' = 0 - 1
    /\ snapshot' = NoSnapshot
    /\ verdict' = "none"
    /\ outcome' = "none"
    /\ failure' = "none"
    /\ tickLog' = <<>>
    /\ UNCHANGED <<manually_tracked_tx_id, trackedAtTickStart, tx_hash, now>>
    /\ UNCHANGED chainVars
    /\ UNCHANGED <<processVars, lastDecision>>

\* the mutant has no try/except around the read: the error ends the loop
ReadRequestFails_Crash ==
    /\ pc = "loop_top"
    /\ manually_tracked_tx_id # NoId
    /\ failure' = "read"
    /\ pc' = "halted"
    /\ tx_request' = NoRequest
    /\ deadline' = 0 - 1
    /\ snapshot' = NoSnapshot
    /\ verdict' = "none"
    /\ outcome' = "none"
    /\ tickLog' = <<>>
    /\ UNCHANGED <<manually_tracked_tx_id, trackedAtTickStart, tx_hash, now>>
    /\ UNCHANGED chainVars
    /\ UNCHANGED <<processVars, lastDecision>>

\* contract.functions.transactionRequests(id).call() raises
ReadRequestFails ==
    /\ pc = "loop_top"
    /\ manually_tracked_tx_id # NoId
    /\ failure' = "read"
    /\ pc' = "sleep"
    /\ tx_request' = NoRequest
    /\ deadline' = 0 - 1
    /\ snapshot' = NoSnapshot
    /\ verdict' = "none"
    /\ outcome' = "none"
    /\ tickLog' = <<>>
    /\ UNCHANGED <<manually_tracked_tx_id, trackedAtTickStart, tx_hash, now>>
    /\ UNCHANGED chainVars
    /\ UNCHANGED <<processVars, lastDecision>>

\* the record read is pending
\* the mutant skips make_decision and dispatches at once
ReadRequestLive_NoDecision ==
    /\ pc = "loop_top"
    /\ manually_tracked_tx_id # NoId
    /\ IsLive(chainRequest)
    /\ tx_request' = [txId |-> manually_tracked_tx_id,
                      maxGasPrice |-> chainRequest.maxGasPrice]
    /\ deadline' = chainRequest.deadline
    /\ tickLog' = <<"read">>
    /\ pc' = "dispatch"
    /\ snapshot' = NoSnapshot
    /\ verdict' = "none"
    /\ outcome' = "none"
    /\ failure' = "none"
    /\ UNCHANGED <<manually_tracked_tx_id, trackedAtTickStart, tx_hash, now>>
    /\ UNCHANGED chainVars
    /\ UNCHANGED <<processVars, lastDecision>>

\* the mutant drops a request whose deadline the local clock has passed
ReadRequestLive_Expire ==
    /\ pc = "loop_top"
    /\ manually_tracked_tx_id # NoId
    /\ IsLive(chainRequest)
    /\ tx_request' = [txId |-> manually_tracked_tx_id,
                      maxGasPrice |-> chainRequest.maxGasPrice]
    /\ deadline' = chainRequest.deadline
    /\ tickLog' = <<"read">>
    /\ IF chainRequest.deadline < now
          THEN manually_tracked_tx_id' = NoId /\ pc' = "sleep"
          ELSE manually_tracked_tx_id' = manually_tracked_tx_id /\ pc' = "decide"
    /\ snapshot' = NoSnapshot
    /\ verdict' = "none"
    /\ outcome' = "none"
    /\ failure' = "none"
    /\ UNCHANGED <<trackedAtTickStart, tx_hash, now>>
    /\ UNCHANGED chainVars
    /\ UNCHANGED <<processVars, lastDecision>>

\* the record read is pending: build tx_request and go on to make_decision
ReadRequestLive ==
    /\ pc = "loop_top"
    /\ manually_tracked_tx_id # NoId
    /\ IsLive(chainRequest)
    /\ tx_request' = [txId |-> manually_tracked_tx_id,
                      maxGasPrice |-> chainRequest.maxGasPrice]
    /\ deadline' = chainRequest.deadline
    /\ tickLog' = <<"read">>
    /\ pc' = "decide"
    /\ snapshot' = NoSnapshot
    /\ verdict' = "none"
    /\ outcome' = "none"
    /\ failure' = "none"
    /\ UNCHANGED <<manually_tracked_tx_id, trackedAtTickStart, tx_hash, now>>
    /\ UNCHANGED chainVars
    /\ UNCHANGED <<processVars, lastDecision>>

\* the mutant goes on to make_decision whatever the record says
ReadRequestResolved_Proceed ==
    /\ pc = "loop_top"
    /\ manually_tracked_tx_id # NoId
    /\ ~IsLive(chainRequest)
    /\ tx_request' = [txId |-> manually_tracked_tx_id,
                      maxGasPrice |-> chainRequest.maxGasPrice]
    /\ deadline' = chainRequest.deadline
    /\ tickLog' = <<"read">>
    /\ pc' = "decide"
    /\ snapshot' = NoSnapshot
    /\ verdict' = "none"
    /\ outcome' = "none"
    /\ failure' = "none"
    /\ UNCHANGED <<manually_tracked_tx_id, trackedAtTickStart, tx_hash, now>>
    /\ UNCHANGED chainVars
    /\ UNCHANGED <<processVars, lastDecision>>

\* the record read is executed or has the zero submitter: print and break
ReadRequestResolved ==
    /\ pc = "loop_top"
    /\ manually_tracked_tx_id # NoId
    /\ ~IsLive(chainRequest)
    /\ deadline' = chainRequest.deadline
    /\ tickLog' = <<"read">>
    /\ pc' = "halted"
    /\ tx_request' = NoRequest
    /\ snapshot' = NoSnapshot
    /\ verdict' = "none"
    /\ outcome' = "none"
    /\ failure' = "none"
    /\ UNCHANGED <<manually_tracked_tx_id, trackedAtTickStart, tx_hash, now>>
    /\ UNCHANGED chainVars
    /\ UNCHANGED <<processVars, lastDecision>>

\* get_live_features returns (None, None)
\* the mutant's make_decision returns True on the missing signal
FeaturesFail_Execute ==
    /\ pc = "decide"
    /\ failure' = "features"
    /\ verdict' = "Execute"
    /\ tickLog' = Append(tickLog, "decide")
    /\ pc' = "dispatch"
    /\ UNCHANGED <<manually_tracked_tx_id, tx_request, deadline, snapshot,
                   outcome, trackedAtTickStart, tx_hash, now>>
    /\ UNCHANGED chainVars
    /\ UNCHANGED <<processVars, lastDecision>>

\* get_live_features catches its own error and returns (None, None);
\* make_decision then returns False
FeaturesFail ==
    /\ pc = "decide"
    /\ failure' = "features"
    /\ verdict' = "Wait"
    /\ tickLog' = Append(tickLog, "decide")
    /\ pc' = "sleep"
    /\ UNCHANGED <<manually_tracked_tx_id, tx_request, deadline, snapshot,
                   outcome, trackedAtTickStart, tx_hash, now>>
    /\ UNCHANGED chainVars
    /\ UNCHANGED <<processVars, lastDecision>>

\* model.predict raises inside make_decision: main_loop's except catches it
PredictFails ==
    /\ pc = "decide"
    /\ failure' = "predictor"
    /\ tickLog' = Append(tickLog, "decide")
    /\ pc' = "sleep"
    /\ UNCHANGED <<manually_tracked_tx_id, tx_request, deadline, snapshot,
                   verdict, outcome, trackedAtTickStart, tx_hash, now>>
    /\ UNCHANGED chainVars
    /\ UNCHANGED <<processVars, lastDecision>>

\* the mutant's verdict also depends on hidden state: after an Execute
\* verdict it waits once, whatever the prices
MakeDecision_Stateful ==
    /\ pc = "decide"
    /\ \E predicted \in Predictions :
          /\ snapshot' = [current |-> baseFee, predicted |-> predicted,
                          userMax |-> tx_request.maxGasPrice,
                          deadline |-> deadline, at |-> now]
          /\ IF make_decision(baseFee, predicted, tx_request.maxGasPrice)
                   /\ lastDecision.verdict # "Execute"
                THEN verdict' = "Execute" /\ pc' = "dispatch"
                ELSE verdict' = "Wait" /\ pc' = "sleep"
          /\ lastDecision' = Evaluation(lastDecision, baseFee, predicted,
                                        tx_request.maxGasPrice, verdict')
    /\ tickLog' = Append(tickLog, "decide")
    /\ UNCHANGED <<manually_tracked_tx_id, tx_request, deadline, outcome,
                   failure, trackedAtTickStart, tx_hash, now>>
    /\ UNCHANGED chainVars
    /\ UNCHANGED processVars

\* make_decision returns; on True main_loop calls execute_transaction_on_chain
MakeDecision ==
    /\ pc = "decide"
    /\ \E predicted \in Predictions :
          /\ snapshot' = [current |-> baseFee, predicted |-> predicted,
                          userMax |-> tx_request.maxGasPrice,
                          deadline |-> deadline, at |-> now]
          /\ IF make_decision(baseFee, predicted, tx_request.maxGasPrice)
                THEN verdict' = "Execute" /\ pc' = "dispatch"
                ELSE verdict' = "Wait" /\ pc' = "sleep"
          /\ lastDecision' = Evaluation(lastDecision, baseFee, predicted,
                                        tx_request.maxGasPrice, verdict')
    /\ tickLog' = Append(tickLog, "decide")
    /\ UNCHANGED <<manually_tracked_tx_id, tx_request, deadline, outcome,
                   failure, trackedAtTickStart, tx_hash, now>>
    /\ UNCHANGED chainVars
    /\ UNCHANGED processVars

\* the mutant stops tracking whatever execute_transaction_on_chain returns
AfterDispatch_Abandon(how) ==
    /\ outcome' = how
    /\ manually_tracked_tx_id' = NoId
    /\ pc' = IF execute_transaction_on_chain(how) THEN "halted" ELSE "sleep"

\* the mutant breaks out of the loop after any dispatch
AfterDispatch_AlwaysBreak(how) ==
    /\ outcome' = how
    /\ manually_tracked_tx_id' = IF execute_transaction_on_chain(how)
                                    THEN NoId ELSE manually_tracked_tx_id
    /\ pc' = "halted"

\* what main_loop does with the return value of execute_transaction_on_chain:
\* True clears the tracked id and breaks, False falls through to the sleep
AfterDispatch(how) ==
    /\ outcome' = how
    /\ IF execute_transaction_on_chain(how)
          THEN manually_tracked_tx_id' = NoId /\ pc' = "halted"
          ELSE manually_tracked_tx_id' = manually_tracked_tx_id /\ pc' = "sleep"

\* build_transaction, sign_transaction or send_raw_transaction raises
DispatchFails ==
    /\ pc = "dispatch"
    /\ AfterDispatch("submit_error")
    /\ failure' = "broadcast"
    /\ tickLog' = Append(tickLog, "dispatch")
    /\ UNCHANGED <<tx_request, deadline, snapshot, verdict, trackedAtTickStart,
                   tx_hash, now>>
    /\ UNCHANGED chainVars
    /\ UNCHANGED <<processVars, lastDecision>>

\* the call is built with the nonce and base fee read now, signed and sent
Broadcast ==
    /\ pc = "dispatch"
    /\ Len(sent) < MaxBroadcasts
    /\ LET call == [hash |-> Len(sent) + 1,
                    txId |-> manually_tracked_tx_id,
                    nonce |-> txCount,
                    maxFeePerGas |-> baseFee + PRIORITY_FEE]
       IN  /\ mempool' = mempool \cup {call}
           /\ sent' = Append(sent, call)
           /\ tx_hash' = call.hash
    /\ tickLog' = Append(tickLog, "dispatch")
    /\ pc' = "await"
    /\ UNCHANGED <<manually_tracked_tx_id, tx_request, deadline, snapshot,
                   verdict, outcome, failure, trackedAtTickStart, now>>
    /\ UNCHANGED <<chainRequest, baseFee, receipts, txCount>>
    /\ UNCHANGED <<processVars, lastDecision>>

\* wait_for_transaction_receipt returns a receipt with status 1
ReceiptSuccess ==
    /\ pc = "await"
    /\ [hash |-> tx_hash, status |-> 1] \in receipts
    /\ AfterDispatch("success")
    /\ UNCHANGED <<tx_request, deadline, snapshot, verdict, failure, tickLog,
                   trackedAtTickStart, tx_hash, now>>
    /\ UNCHANGED chainVars
    /\ UNCHANGED <<processVars, lastDecision>>

\* wait_for_transaction_receipt returns a receipt with status 0 (reverted)
ReceiptFailure ==
    /\ pc = "await"
    /\ [hash |-> tx_hash, status |-> 0] \in receipts
    /\ AfterDispatch("fail_receipt")
    /\ UNCHANGED <<tx_request, deadline, snapshot, verdict, failure, tickLog,
                   trackedAtTickStart, tx_hash, now>>
    /\ UNCHANGED chainVars
    /\ UNCHANGED <<processVars, lastDecision>>

\* the mutant sends the call again at once when the wait times out
ReceiptTimeout_RetryNow ==
    /\ pc = "await"
    /\ \A r \in receipts : r.hash # tx_hash
    /\ now + RECEIPT_TIMEOUT <= MaxNow
    /\ now' = now + RECEIPT_TIMEOUT
    /\ outcome' = "timeout"
    /\ failure' = "timeout"
    /\ pc' = "dispatch"
    /\ UNCHANGED <<manually_tracked_tx_id, tx_request, deadline, snapshot,
                   verdict, tickLog, trackedAtTickStart, tx_hash>>
    /\ UNCHANGED chainVars
    /\ UNCHANGED <<processVars, lastDecision>>

\* wait_for_transaction_receipt raises TimeExhausted after 120 seconds
ReceiptTimeout ==
    /\ pc = "await"
    /\ \A r \in receipts : r.hash # tx_hash
    /\ now + RECEIPT_TIMEOUT <= MaxNow
    /\ now' = now + RECEIPT_TIMEOUT
    /\ AfterDispatch("timeout")
    /\ failure' = "timeout"
    /\ UNCHANGED <<tx_request, deadline, snapshot, verdict, tickLog,
                   trackedAtTickStart, tx_hash>>
    /\ UNCHANGED chainVars
    /\ UNCHANGED <<processVars, lastDecision>>

\* time.sleep(60), then the next iteration of while True
Sleep ==
    /\ pc = "sleep"
    /\ now + SLEEP_SECONDS <= MaxNow
    /\ now' = now + SLEEP_SECONDS
    /\ pc' = "loop_top"
    /\ trackedAtTickStart' = manually_tracked_tx_id
    /\ UNCHANGED <<manually_tracked_tx_id, tx_request, deadline, snapshot,
                   verdict, outcome, failure, tickLog, tx_hash>>
    /\ UNCHANGED chainVars
    /\ UNCHANGED <<processVars, lastDecision>>

(***************************************************************************)
(* The ledger and the other actors.                                        *)
(***************************************************************************)

\* a new latest block carries another base fee
BaseFeeChanges ==
    /\ \E fee \in BaseFees \ {baseFee} : baseFee' = fee
    /\ UNCHANGED loopVars
    /\ UNCHANGED <<chainRequest, mempool, receipts, txCount, sent, now>>
    /\ UNCHANGED <<processVars, lastDecision>>

\* someone else's executeTransaction(id) is mined
OtherActorExecutes ==
    /\ IsLive(chainRequest)
    /\ chainRequest' = [chainRequest EXCEPT !.executed = TRUE]
    /\ UNCHANGED loopVars
    /\ UNCHANGED <<baseFee, mempool, receipts, txCount, sent, now>>
    /\ UNCHANGED <<processVars, lastDecision>>

\* the submitter's cancelTransaction(id) is mined: the submitter is cleared
SubmitterCancels ==
    /\ IsLive(chainRequest)
    /\ chainRequest' = [chainRequest EXCEPT !.submitter = ZERO_ADDRESS]
    /\ UNCHANGED loopVars
    /\ UNCHANGED <<baseFee, mempool, receipts, txCount, sent, now>>
    /\ UNCHANGED <<processVars, lastDecision>>

\* a broadcast call with the account's next nonce and a sufficient fee cap is
\* mined; calls left behind with a used nonce can never be mined
MineCall ==
    /\ \E call \in mempool, status \in {0, 1} :
          /\ call.nonce = txCount
          /\ call.maxFeePerGas >= baseFee
          /\ status = 1 => IsLive(chainRequest)
          /\ receipts' = receipts \cup {[hash |-> call.hash, status |-> status]}
          /\ chainRequest' = IF status = 1
                                THEN [chainRequest EXCEPT !.executed = TRUE]
                                ELSE chainRequest
          /\ txCount' = txCount + 1
          /\ mempool' = {c \in mempool : c.nonce > txCount}
    /\ UNCHANGED loopVars
    /\ UNCHANGED <<baseFee, sent, now>>
    /\ UNCHANGED <<processVars, lastDecision>>

Next ==
    \/ StartupConfigMissing
    \/ StartupNoConnection
    \/ StartupSetupFails
    \/ StartupDone
    \/ NoTrackedTx
    \/ ReadRequestFails
    \/ ReadRequestLive
    \/ ReadRequestResolved
    \/ FeaturesFail
    \/ PredictFails
    \/ MakeDecision
    \/ DispatchFails
    \/ Broadcast
    \/ ReceiptSuccess
    \/ ReceiptFailure
    \/ ReceiptTimeout
    \/ Sleep
    \/ BaseFeeChanges
    \/ OtherActorExecutes
    \/ SubmitterCancels
    \/ MineCall

Spec == Init /\ [][Next]_vars

TypeOK ==
    /\ pc \in {"startup", "failed", "loop_top", "decide", "dispatch", "await",
              "sleep", "halted"}
    /\ manually_tracked_tx_id \in TxIds \cup {NoId}
    /\ baseFee \in BaseFees
    /\ now \in 0..MaxNow
    /\ verdict \in {"none", "Execute", "Wait"}
    /\ outcome \in {"none", "success", "fail_receipt", "timeout", "submit_error"}
    /\ failure \in {"none", "read", "features", "predictor", "broadcast", "timeout"}
    /\ txCount \in 0..MaxBroadcasts
    /\ Len(sent) <= MaxBroadcasts

(***************************************************************************)
(* Properties.                                                             *)
(***************************************************************************)
Decided == snapshot # NoSnapshot
Urgent == snapshot.deadline - snapshot.at < 900
DispatchStarted ==
    \/ pc \in {"dispatch", "await"}
    \/ \E i \in DOMAIN tickLog : tickLog[i] = "dispatch"

\* C1: a decision taken on a snapshot whose current cost is at or above the
\* request's maxCost is Wait, whatever the prediction and the time left, and
\* the tick starts no dispatch.
C1_CeilingForcesWait ==
    (Decided /\ snapshot.current >= snapshot.userMax) =>
        (verdict = "Wait" /\ ~DispatchStarted)

\* maxCost 50, current 55, and both a favorable prediction and an urgent
\* deadline pulling the other way
C1_Witness ==
    /\ Decided
    /\ snapshot.current = 550 /\ snapshot.userMax = 500
    /\ snapshot.predicted = 600
    /\ Urgent
    /\ verdict = "Wait"
    /\ pc = "sleep"

\* C2: a decision taken less than 900 seconds before the deadline with the
\* current cost strictly below maxCost is Execute, favorable or not.
C2_UrgentExecutes ==
    (Decided /\ Urgent /\ snapshot.current < snapshot.userMax) =>
        verdict = "Execute"

\* C3: under the ceiling and not urgent, the decision is Execute if and only
\* if current < predicted * 1.05, and Wait otherwise.
C3_FavorableIffExecute ==
    (Decided /\ ~Urgent /\ snapshot.current < snapshot.userMax) =>
        verdict = IF snapshot.current * 100 < snapshot.predicted * 105
                     THEN "Execute" ELSE "Wait"

\* current equal to the prediction: favorable only thanks to the margin
C3_Witness ==
    /\ Decided /\ ~Urgent
    /\ snapshot.current = 400 /\ snapshot.predicted = 400
    /\ snapshot.userMax = 500
    /\ verdict = "Execute"
    /\ DispatchStarted

\* C4: in a tick whose cost signal is unavailable (the live-feature read or
\* the predictor call failed) nothing is executed: no Execute verdict, no
\* dispatch, and the tracked id is the one the tick began with.
C4_NoSignalMeansWait ==
    failure \in {"features", "predictor"} =>
        /\ verdict # "Execute"
        /\ ~DispatchStarted
        /\ manually_tracked_tx_id = trackedAtTickStart
        /\ manually_tracked_tx_id # NoId

\* the signal failed although the price on the ledger was under the ceiling
C4_Witness ==
    /\ failure \in {"features", "predictor"}
    /\ pc = "sleep"
    /\ baseFee < chainRequest.maxGasPrice
    /\ IsLive(chainRequest)

\* C5: after a failure receipt the request is no longer tracked.
C5_FailureReceiptRemoves ==
    outcome = "fail_receipt" => manually_tracked_tx_id = NoId

\* C6: after a dispatch that failed to submit or timed out waiting for its
\* receipt, the request is still tracked and the loop is at its sleep or at
\* the top of the next tick, never halted.
C6_TransientDispatchKeepsRequest ==
    outcome \in {"submit_error", "timeout"} =>
        /\ manually_tracked_tx_id # NoId
        /\ manually_tracked_tx_id = trackedAtTickStart
        /\ pc \in {"sleep", "loop_top"}

\* the next tick begins with the id tracked while the call that timed out is
\* still unmined
C6_Witness ==
    /\ outcome = "timeout"
    /\ pc = "loop_top"
    /\ manually_tracked_tx_id # NoId
    /\ mempool # {}

\* C7: a success receipt clears the tracked id in that tick and ends the
\* loop: from then on the loop takes no step, so the id is never read,
\* evaluated or dispatched again.
C7_SuccessRemovesForGood ==
    /\ [](outcome = "success" =>
             (manually_tracked_tx_id = NoId /\ pc = "halted"))
    /\ [][outcome = "success" => UNCHANGED <<loopVars, sent>>]_vars

C7_Witness ==
    /\ outcome = "success"
    /\ pc = "halted"
    /\ manually_tracked_tx_id = NoId
    /\ chainRequest.executed

\* C8: when a tick's read of the remote record ends, no id stays tracked
\* whose record is executed or has the zero submitter.
C8_ReconcilePrunes ==
    [][(pc = "loop_top" /\ tickLog' = <<"read">>) =>
          (manually_tracked_tx_id' # NoId => IsLive(chainRequest'))]_vars

C10_TransientFailureContained ==
    failure # "none" =>
        /\ pc \in {"sleep", "loop_top"}
        /\ manually_tracked_tx_id # NoId
        /\ manually_tracked_tx_id = trackedAtTickStart

\* the tick after a failed read has started, the id still tracked
C10_Witness ==
    /\ failure = "read"
    /\ pc = "loop_top"
    /\ manually_tracked_tx_id # NoId
    /\ now > 0

TrackedSet ==
    IF manually_tracked_tx_id = NoId THEN {} ELSE {manually_tracked_tx_id}

\* C12: when a tick that changed the tracked set is over, the tracked set
\* has been saved: the latest saved copy is the tracked set.
C12_MutationIsSaved ==
    (manually_tracked_tx_id # trackedAtTickStart
        /\ pc \in {"sleep", "loop_top", "halted"}) =>
            (saved # NothingSaved /\ saved[Len(saved)] = TrackedSet)

\* C13: with one of the three settings absent, or the node unreachable at
\* startup, the process fails before the loop: its position is never in the
\* loop, and no remote read, decision or dispatch has happened.
C13_FatalBeforeLoop ==
    (\/ ~config.rpc_url \/ ~config.private_key \/ ~config.contract_address
     \/ ~connected) =>
        /\ pc \in {"startup", "failed"}
        /\ tickLog = <<>>
        /\ deadline = 0 - 1
        /\ verdict = "none"
        /\ sent = <<>>

\* the process failed on a missing RPC URL although a pending request with an
\* affordable price was there to execute
C13_Witness ==
    /\ pc = "failed"
    /\ ~config.rpc_url /\ config.private_key /\ config.contract_address
    /\ manually_tracked_tx_id # NoId
    /\ IsLive(chainRequest)
    /\ baseFee < chainRequest.maxGasPrice

C15_RemovalIsTerminal ==
    [][(manually_tracked_tx_id = NoId \/ pc = "halted") =>
          /\ manually_tracked_tx_id' = manually_tracked_tx_id
          /\ pc' \notin {"decide", "dispatch", "await"}
          /\ pc = "halted" => pc' = "halted"
          /\ tickLog' \in {tickLog, <<>>}
          /\ UNCHANGED <<sent, lastDecision>>]_vars

\* the id was tracked, dispatched and removed; the ledger goes on changing
C15_Witness ==
    /\ manually_tracked_tx_id = NoId
    /\ trackedAtTickStart # NoId
    /\ Len(sent) >= 1
    /\ baseFee # sent[Len(sent)].maxFeePerGas - PRIORITY_FEE

\* C16: a tracked request that is pending on the ledger and whose deadline
\* the local clock has passed is read and handed to make_decision like any
\* other: the tick's first step keeps it tracked and either goes on to the
\* decision or fails on the read and sleeps.
C16_PastDeadlineStillEvaluated ==
    [][(/\ pc = "loop_top" /\ pc' # "loop_top"
        /\ manually_tracked_tx_id # NoId
        /\ IsLive(chainRequest)
        /\ chainRequest.deadline < now) =>
          /\ manually_tracked_tx_id' = manually_tracked_tx_id
          /\ \/ (pc' = "decide" /\ tickLog' = <<"read">>)
             \/ (pc' = "sleep" /\ failure' = "read")]_vars

\* a decision was taken for a request whose deadline had passed
C16_Witness ==
    /\ Decided
    /\ snapshot.deadline < snapshot.at
    /\ manually_tracked_tx_id # NoId
    /\ verdict \in {"Execute", "Wait"}

DispatchesThisTick == {i \in DOMAIN tickLog : tickLog[i] = "dispatch"}

\* C17: a tick dispatches at most once; a call is sent only by the dispatch
\* step, one at a time; and while a dispatch waits for its receipt the loop
\* does nothing else and leaves the wait only with a confirmed, failed or
\* timed-out outcome, to the sleep or the end of the loop.
C17_DispatchSerialized ==
    /\ [](Cardinality(DispatchesThisTick) <= 1)
    /\ [][sent' # sent =>
             /\ Len(sent') = Len(sent) + 1
             /\ pc = "dispatch" /\ pc' = "await"
             /\ DispatchesThisTick = {}]_vars
    /\ [][pc = "await" =>
             /\ UNCHANGED <<tickLog, sent, snapshot, verdict, tx_request>>
             /\ pc' # "await" =>
                   /\ outcome' \in {"success", "fail_receipt", "timeout"}
                   /\ pc' \in {"sleep", "halted"}]_vars

\* a later tick dispatches again while the call that timed out is unmined
C17_Witness ==
    /\ pc = "await"
    /\ Len(sent) = 2
    /\ Cardinality(mempool) = 2
    /\ Cardinality(DispatchesThisTick) = 1

\* C18: a call is broadcast only in a tick whose read found the record
\* pending (non-zero submitter, not executed) and whose decision was Execute.
C18_BroadcastOnlyWhenApproved ==
    /\ [](pc \in {"dispatch", "await"} =>
             /\ verdict = "Execute"
             /\ tx_request.txId = manually_tracked_tx_id
             /\ \E n \in 2..3 :
                   tickLog = SubSeq(<<"read", "decide", "dispatch">>, 1, n))
    /\ [][sent' # sent =>
             /\ verdict = "Execute"
             /\ tickLog = <<"read", "decide">>
             /\ sent'[Len(sent')].txId = tx_request.txId]_vars
    /\ [][(pc = "loop_top" /\ pc' \in {"decide", "dispatch"}) =>
             (tickLog' = <<"read">> /\ IsLive(chainRequest))]_vars

\* the call went out on an Execute verdict; the record was pending at the
\* tick's read and has been resolved by someone else since
C18_Witness ==
    /\ pc = "await"
    /\ verdict = "Execute"
    /\ Len(sent) = 1
    /\ ~IsLive(chainRequest)
    /\ receipts = {}

\* C19: the maxFeePerGas of every call broadcast (base fee read at dispatch
\* plus the 2 gwei tip) is at most the request's maxCost.
C19_FeeCapUnderCeiling ==
    \A i \in DOMAIN sent : sent[i].maxFeePerGas <= chainRequest.maxGasPrice

\* C20: no two calls broadcast by the loop carry the same nonce.
C20_NoncesDistinct ==
    \A i, j \in DOMAIN sent : i # j => sent[i].nonce # sent[j].nonce

====
